---- MODULE Spec2Model ----
(***************************************************************************)
(* dwmblocksrs: a status line made of segments.  The repository holds     *)
(* three builds of the scheduler, modelled side by side and selected by   *)
(* the variable `program`:                                                *)
(*   "lib"  - src/lib.rs `run`: one task per segment                      *)
(*            (Segment::run_update_loop), results sent as (id, text)      *)
(*            through one channel to the loop that owns the StatusBar;    *)
(*   "bar"  - src/status_bar.rs: the StatusBar that owns the segments and *)
(*            recomputes them itself (new / update_segment);              *)
(*   "tick" - src/main.rs `update_loop` with src/signals.rs: one loop     *)
(*            woken by a shared tick or by the signal handler.            *)
(* Strings are TLA+ strings; the colour byte c is written "^c" and the    *)
(* byte 0x01 that ends a coloured field is written "^.".                  *)
(***************************************************************************)
EXTENDS Integers, Sequences, FiniteSets, TLC

(***************************************************************************)
(* Bounds of the model.                                                    *)
(***************************************************************************)
\* Width, in bits, of the integers of a signal offset (u32 / i32 in the code).
IntBits == 8
\* Last instant of the clock (seconds).
MaxTime == 5
\* Number of signal deliveries the environment makes in one run.
MaxSignals == 2

(***************************************************************************)
(* Platform constants.                                                     *)
(***************************************************************************)
SIGRTMIN == 34
SIGRTMAX == 64

(***************************************************************************)
(* Option<T> and Color: None / Uncolored is <<>>, Some(x) / Colored(x) is  *)
(* <<x>>.                                                                  *)
(***************************************************************************)
None == <<>>
Some(x) == <<x>>
IsSome(o) == o # <<>>
Unwrap(o) == o[1]
\* (mutant of OrElse: the alternative is never taken)
OrElse_Own(o, other) == o
\* Option::or_else(|| other)
OrElse(o, other) == IF IsSome(o) THEN o ELSE other
\* Option::unwrap_or_else(|| default)
UnwrapOr(o, default) == IF IsSome(o) THEN o[1] ELSE default

Uncolored == <<>>
Colored(c) == <<c>>

Min(a, b) == IF a <= b THEN a ELSE b
Range(s) == {s[k] : k \in DOMAIN s}

(***************************************************************************)
(* color.rs                                                                *)
(***************************************************************************)
\* the byte b as it is written in the strings of the model
Byte(b) == IF b = 1 THEN "^." ELSE "^" \o ToString(b)

\* `c as char` formatted into a String: the UTF-8 encoding of the character
\* with code point c, one byte below 128 and two bytes from 128 on
char_utf8(c) ==
    IF c < 128 THEN Byte(c) ELSE Byte(192 + (c \div 64)) \o Byte(128 + (c % 64))

\* <str as Colorable>::color
color(text, c) ==
    IF c = Uncolored THEN text ELSE char_utf8(c[1]) \o text \o Byte(1)

\* (mutant of Color_or_default: a default that is set wins)
Color_or_default_Global(self, default) ==
    IF default = Uncolored THEN self ELSE default

\* Color::or_default
Color_or_default(self, default) == IF self = Uncolored THEN default ELSE self

\* SegmentColoring::or_default
SegmentColoring_or_default(self, default_coloring) ==
    [text            |-> Color_or_default(self.text, default_coloring.text),
     left_separator  |-> Color_or_default(self.left_separator,
                                          default_coloring.left_separator),
     right_separator |-> Color_or_default(self.right_separator,
                                          default_coloring.right_separator),
     icon            |-> Color_or_default(self.icon, default_coloring.icon)]

NoColoring ==
    [text |-> Uncolored, left_separator |-> Uncolored,
     right_separator |-> Uncolored, icon |-> Uncolored]

(***************************************************************************)
(* Signal offsets: `signal as i32 + *SIGRTMIN` on IntBits-wide integers.   *)
(***************************************************************************)
\* u32 -> i32 cast: the bit pattern is kept.
AsSigned(u) == IF u >= 2^(IntBits - 1) THEN u - 2^IntBits ELSE u

\* The addition overflows the signed type: a panic in a debug build, a
\* wrap-around in a release build.
AddOverflows(a, b) == a + b > 2^(IntBits - 1) - 1

WrappingAdd(a, b) == IF AddOverflows(a, b) THEN a + b - 2^IntBits ELSE a + b

\* the closure of convert_signal_offsets' map
ResolveSignal(offset) == WrappingAdd(AsSigned(offset), SIGRTMIN)

\* Segment::convert_signal_offsets: Err is None, Ok(signals) is Some(signals)
convert_signal_offsets(signal_offsets) ==
    LET signals == [k \in DOMAIN signal_offsets |->
                        ResolveSignal(signal_offsets[k])]
    IN  IF \E k \in DOMAIN signals : signals[k] > SIGRTMAX
        THEN None
        ELSE Some(signals)

\* some offset makes the addition of convert_signal_offsets overflow
OffsetsOverflow(signal_offsets) ==
    \E k \in DOMAIN signal_offsets :
        AddOverflows(AsSigned(signal_offsets[k]), SIGRTMIN)

(***************************************************************************)
(* segments.rs: construction and rendering of a segment.                   *)
(***************************************************************************)
\* Segment::new_from_config: Err is None.  The colours of the configuration
\* are given as Color values (the lookup of colour names is not modelled).
Segment_new_from_config(kind, update_interval, signal_offsets, left_separator, right_separator, icon, hide_if_empty, coloring, conf) ==
    LET signals == convert_signal_offsets(signal_offsets)
    IN  IF signals = None
        THEN None
        ELSE Some([kind            |-> kind,
                   update_interval |-> update_interval,
                   signals         |-> Unwrap(signals),
                   left_separator  |-> UnwrapOr(OrElse(left_separator,
                                                       conf.left_separator), ""),
                   right_separator |-> UnwrapOr(OrElse(right_separator,
                                                       conf.right_separator), ""),
                   icon            |-> UnwrapOr(icon, ""),
                   hide_if_empty   |-> hide_if_empty,
                   coloring        |-> SegmentColoring_or_default(coloring,
                                                                  conf.coloring)])

\* (mutant of Segment_compute_value: an empty value is hidden, the
\* separators and the icon around it are not)
Segment_compute_value_ValueOnly(self, new_value) ==
    IF self.hide_if_empty /\ new_value = ""
    THEN color(self.left_separator, self.coloring.left_separator)
            \o color(self.icon, self.coloring.icon)
            \o color(self.right_separator, self.coloring.right_separator)
    ELSE color(self.left_separator, self.coloring.left_separator)
            \o color(self.icon, self.coloring.icon)
            \o color(new_value, self.coloring.text)
            \o color(self.right_separator, self.coloring.right_separator)

\* Segment::compute_value, given the value new_value its kind returned
Segment_compute_value(self, new_value) ==
    IF self.hide_if_empty /\ new_value = ""
    THEN ""
    ELSE color(self.left_separator, self.coloring.left_separator)
            \o color(self.icon, self.coloring.icon)
            \o color(new_value, self.coloring.text)
            \o color(self.right_separator, self.coloring.right_separator)

(***************************************************************************)
(* segments/program_output.rs.  The bytes a program writes are a sequence  *)
(* of characters (one-character strings); InvalidByte stands for a byte    *)
(* that is not valid UTF-8.                                                *)
(***************************************************************************)
InvalidByte == "<FF>"
Whitespace == {" ", "\n"}

\* Command::output(): Err (the program could not be spawned), or Ok(Output)
SpawnErr == [spawned |-> FALSE, success |-> FALSE, stdout |-> <<>>, stderr |-> <<>>]
Output(success, stdout, stderr) ==
    [spawned |-> TRUE, success |-> success, stdout |-> stdout, stderr |-> stderr]

\* String::from_utf8: Err is None
from_utf8(bytes) ==
    IF \E k \in DOMAIN bytes : bytes[k] = InvalidByte THEN None ELSE Some(bytes)

\* str::trim: leading and trailing whitespace is removed
RECURSIVE trim_start(_)
trim_start(chars) ==
    IF chars # <<>> /\ Head(chars) \in Whitespace
    THEN trim_start(Tail(chars))
    ELSE chars

RECURSIVE trim_end(_)
trim_end(chars) ==
    IF chars # <<>> /\ chars[Len(chars)] \in Whitespace
    THEN trim_end(SubSeq(chars, 1, Len(chars) - 1))
    ELSE chars

trim(chars) == trim_end(trim_start(chars))

\* the String made of the characters
RECURSIVE Str(_)
Str(chars) == IF chars = <<>> THEN "" ELSE Head(chars) \o Str(Tail(chars))

\* ProgramOutput::compute_value, given what Command::output() returned:
\* Some(the value), or None when an unwrap panics
ProgramOutput_compute_value(self, result) ==
    IF ~result.spawned
    THEN Some("ERROR")
    ELSE IF ~result.success /\ from_utf8(result.stderr) = None
         THEN None
         ELSE IF from_utf8(result.stdout) = None
              THEN None
              ELSE Some(Str(IF self.trim
                            THEN trim(Unwrap(from_utf8(result.stdout)))
                            ELSE Unwrap(from_utf8(result.stdout))))

\* SegmentKind::compute_value: the values a kind may return.  Constant returns
\* its text; a program returns what ProgramOutput::compute_value makes of one
\* of the results its runs may have.
Kind_compute_value(kind) ==
    IF kind.type = "constant"
    THEN {kind.text}
    ELSE {Unwrap(ProgramOutput_compute_value(kind, result)) :
             result \in {r \in kind.results :
                             ProgramOutput_compute_value(kind, r) # None}}

\* SegmentKind::compute_value may panic
Kind_panics(kind) ==
    /\ kind.type = "program"
    /\ \E result \in kind.results : ProgramOutput_compute_value(kind, result) = None

\* the texts one computation of a segment may produce
ComputedTexts(self) ==
    {Segment_compute_value(self, v) : v \in Kind_compute_value(self.kind)}

(***************************************************************************)
(* config.rs                                                               *)
(***************************************************************************)
\* (mutant of SegmentSignalOffsets: the update-all offset is not pushed)
SegmentSignalOffsets_Own(segment_config, conf) == segment_config.signals

\* the signal offsets parse_segment hands to the constructor: the segment's
\* own, then the update-all offset when the configuration sets one
SegmentSignalOffsets(segment_config, conf) ==
    IF IsSome(conf.update_all_signal)
    THEN Append(segment_config.signals, Unwrap(conf.update_all_signal))
    ELSE segment_config.signals

\* parse_segment: Err is None
parse_segment(segment_config, conf) ==
    Segment_new_from_config(segment_config.kind,
                            segment_config.update_interval,
                            SegmentSignalOffsets(segment_config, conf),
                            segment_config.left_separator,
                            segment_config.right_separator,
                            segment_config.icon,
                            segment_config.hide_if_empty,
                            segment_config.coloring,
                            conf)

\* parse_config: Err (of any segment) is None, Ok(segments) is Some(segments)
parse_config(file) ==
    LET parsed == [k \in DOMAIN file.segments |->
                       parse_segment(file.segments[k], file)]
    IN  IF \E k \in DOMAIN parsed : parsed[k] = None
        THEN None
        ELSE Some([k \in DOMAIN parsed |-> Unwrap(parsed[k])])

\* the addition of convert_signal_offsets overflows for some segment
ConfigOverflows(file) ==
    \E k \in DOMAIN file.segments :
        OffsetsOverflow(SegmentSignalOffsets(file.segments[k], file))

(***************************************************************************)
(* The configuration files of the model.                                   *)
(***************************************************************************)
ConstantKind(text) == [type |-> "constant", text |-> text]
\* ProgramOutput::new(program, args, trim), with the results the runs of the
\* program may have
CommandKind(trim_output, results) ==
    [type |-> "program", trim |-> trim_output, results |-> results]
\* a program that runs, exits with status 0 and prints one of the texts of
\* stdout (each one character, or empty)
ProgramKind(stdout) ==
    CommandKind(FALSE, {Output(TRUE, IF text = "" THEN <<>> ELSE <<text>>, <<>>) :
                           text \in stdout})

SegmentConfig(kind, update_interval, signals) ==
    [kind |-> kind, update_interval |-> update_interval, signals |-> signals,
     left_separator |-> None, right_separator |-> None, icon |-> None,
     hide_if_empty |-> FALSE, coloring |-> NoColoring]

ConfigFile(segs, update_all_signal) ==
    [segments |-> segs, left_separator |-> None, right_separator |-> None,
     update_all_signal |-> update_all_signal, update_interval |-> None,
     coloring |-> NoColoring]

\* a counter-like segment refreshed every 2 s and on SIGRTMIN+1, and a
\* constant that is never refreshed (examples/my_custom_segment.rs)
ConfigCustom ==
    ConfigFile(<<SegmentConfig(ProgramKind({"A", "Z"}), Some(2), <<1>>),
                 SegmentConfig(ConstantKind("B"), None, <<>>)>>, None)

\* an update-all signal, for a segment with a signal of its own and for one
\* with neither interval nor signal
ConfigUpdateAll ==
    ConfigFile(<<SegmentConfig(ConstantKind("A"), Some(2), <<1>>),
                 SegmentConfig(ProgramKind({"B", ""}), None, <<>>)>>, Some(2))

\* three segments, the first and the last on the same signal
ConfigFanOut ==
    ConfigFile(<<SegmentConfig(ProgramKind({"A", "Z"}), None, <<1>>),
                 SegmentConfig(ConstantKind("B"), None, <<>>),
                 SegmentConfig(ProgramKind({"C", "Y"}), None, <<1>>)>>, None)

\* a signal above SIGRTMAX
ConfigTooHigh ==
    ConfigFile(<<SegmentConfig(ConstantKind("A"), None, <<>>),
                 SegmentConfig(ConstantKind("B"), None, <<SIGRTMAX>>)>>, None)

\* an offset whose cast to the signed type is negative: it resolves to
\* SIGRTMIN - 1
ConfigWrapped ==
    ConfigFile(<<SegmentConfig(ConstantKind("A"), None, <<2^IntBits - 1>>),
                 SegmentConfig(ProgramKind({"B", "Y"}), Some(1), <<>>)>>, None)

\* a program, refreshed on SIGRTMIN+1, that at times cannot be spawned, at
\* times exits with a non-zero status and at times prints a byte that is not
\* UTF-8; and a program that is never refreshed
ConfigBadOutput ==
    ConfigFile(<<SegmentConfig(CommandKind(FALSE,
                                 {SpawnErr,
                                  Output(FALSE, <<"A">>, <<"e">>),
                                  Output(TRUE, <<InvalidByte>>, <<>>)}),
                               None, <<1>>),
                 SegmentConfig(ProgramKind({"B", "Y"}), None, <<>>)>>, None)

\* two programs refreshed by the timer alone, every second and every two
\* seconds
ConfigIntervals ==
    ConfigFile(<<SegmentConfig(ProgramKind({"A", "Z"}), Some(1), <<>>),
                 SegmentConfig(ProgramKind({"B", "Y"}), Some(2), <<>>)>>, None)

\* a constant refreshed every two seconds by the timer alone, beside a
\* constant refreshed on SIGRTMIN+1 alone
ConfigShift ==
    ConfigFile(<<SegmentConfig(ConstantKind("A"), Some(2), <<>>),
                 SegmentConfig(ConstantKind("B"), None, <<1>>)>>, None)

\* a constant that names SIGRTMIN+1 twice and a constant that names
\* SIGRTMIN+2, which is the update-all signal as well
ConfigDuplicate ==
    ConfigFile(<<SegmentConfig(ConstantKind("A"), None, <<1, 1>>),
                 SegmentConfig(ConstantKind("B"), None, <<2>>)>>, Some(2))

\* a program refreshed every two seconds by the timer alone that at times
\* prints a byte that is not UTF-8
ConfigBadPeriodic ==
    ConfigFile(<<SegmentConfig(CommandKind(FALSE,
                                 {Output(TRUE, <<"A">>, <<>>),
                                  Output(TRUE, <<InvalidByte>>, <<>>)}),
                               Some(2), <<>>)>>, None)

ConfigFiles ==
    <<ConfigCustom, ConfigUpdateAll, ConfigFanOut, ConfigTooHigh, ConfigWrapped,
      ConfigBadOutput, ConfigIntervals, ConfigShift, ConfigDuplicate,
      ConfigBadPeriodic>>

(***************************************************************************)
(* State.                                                                  *)
(***************************************************************************)
VARIABLES
    program,        \* the build that runs: "lib", "bar" or "tick"
    config,         \* the configuration file read at startup (index in ConfigFiles)
    main_pc,        \* position of the main thread
    segments,       \* Vec<Segment> returned by parse_config (<<>> before)
    segment_texts,  \* StatusBar::segment_texts, indexed by SegmentId 0..n-1
    current_text,   \* StatusBar::current_text / update_loop's last_status_text
    published,      \* every text handed to the sink (XStoreName), in order
    calls,          \* "bar": number of update_segment calls made by the owner
    now,            \* the clock (Instant::now()), in seconds
    sent,           \* number of signals the environment has delivered
    channel,        \* the messages in the channel, oldest first
    task_pc,        \* "lib": position of the task of each segment
    pending,        \* "lib": signals delivered to the task's Signals, not yet taken
    last_update,    \* last_update of each segment
    deadline,       \* "lib": Some(instant the task's timeout expires) or None
    in_flight,      \* compute_value calls of each segment in progress
    computations,   \* compute_value calls of each segment started so far
    loop_now,       \* "tick": `now` of update_loop, taken at the top of the loop
    segment_ref,    \* "tick": Some(segment_ref received from the channel) or None
    input,          \* "test": the function called and its arguments (None in a run)
    output,         \* "test": Some(what the call returned), None before the call
    last_computed,  \* Some(text the latest finished computation of each segment returned)
    computed_at,    \* "tick": instant at which that computation returned
    warnings        \* "lib": number of warn! lines each task has logged

status_vars == <<segment_texts, current_text, published>>
task_vars == <<task_pc, pending, last_update, deadline, in_flight, computations>>
tick_vars == <<loop_now, segment_ref>>
test_vars == <<input, output>>
\* what is observed of the computations: their results and the log
obs_vars == <<last_computed, computed_at, warnings>>
\* what no step of a run changes
fixed_vars == <<program, config, test_vars>>
vars == <<program, config, main_pc, segments, segment_texts, current_text,
          published, calls, now, sent, channel, task_pc, pending, last_update,
          deadline, in_flight, computations, loop_now, segment_ref, input,
          output, last_computed, computed_at, warnings>>

\* Number of update_segment calls the owner of a "bar" StatusBar makes.
MaxUpdates == 3

Programs == {"lib", "bar", "tick"}

num_segments == Len(segments)
SegmentIds == 0 .. num_segments - 1
\* segments[id] of the code (ids count from 0)
Seg(id) == segments[id + 1]

\* the process runs (it neither returned an Err nor was aborted by a panic)
Running == main_pc \notin {"parse", "error", "aborted"}

(***************************************************************************)
(* status_bar.rs                                                           *)
(***************************************************************************)
RECURSIVE JoinUpTo(_, _)
JoinUpTo(texts, n) ==
    IF n = 0 THEN "" ELSE JoinUpTo(texts, n - 1) \o texts[n - 1]

\* segment_texts.join(""): the texts of ids 0, 1, ... in this order
Join(texts) == JoinUpTo(texts, Cardinality(DOMAIN texts))

\* (mutant of set_status: the sink is not called)
set_status_Skip(text) == published' = published

\* StatusBar::set_status: hands current_text to the sink
set_status(text) == published' = Append(published, text)

\* (mutants of TextChanged: the text is never, or always, taken as changed)
TextChanged_Never(old_text, new_text) == FALSE
TextChanged_Always(old_text, new_text) == TRUE

\* the comparison of update_segment / update_loop that decides a publish
TextChanged(old_text, new_text) == old_text # new_text

\* StatusBar::new, with texts the texts it starts from
StatusBar_new(texts) ==
    /\ segment_texts' = texts
    /\ current_text' = Join(texts)
    /\ set_status(Join(texts))

\* (mutant of Slot: the text lands in the slot of the next segment)
Slot_Next(segment) == (segment + 1) % num_segments

\* the slot update_segment stores the text of segment `segment` in
Slot(segment) == segment

\* StatusBar::update_segment, with text the text of the segment
StatusBar_update_segment(segment, text) ==
    LET texts    == [segment_texts EXCEPT ![Slot(segment)] = text]
        new_text == Join(texts)
    IN  /\ segment_texts' = texts
        /\ IF TextChanged(current_text, new_text)
           THEN /\ current_text' = new_text
                /\ set_status(new_text)
           ELSE UNCHANGED <<current_text, published>>

(***************************************************************************)
(* Startup, common to the builds: the configuration is parsed; an Err ends *)
(* the run (`?` in lib.rs run_with_config and in main.rs run).             *)
(***************************************************************************)
ParseOk ==
    /\ main_pc = "parse"
    /\ parse_config(ConfigFiles[config]) # None
    /\ LET segs == Unwrap(parse_config(ConfigFiles[config]))
           ids  == 0 .. Len(segs) - 1
       IN  /\ segments' = segs
           /\ task_pc' = [id \in ids |-> "unspawned"]
           /\ pending' = [id \in ids |-> {}]
           /\ last_update' = [id \in ids |-> 0]
           /\ deadline' = [id \in ids |-> None]
           /\ in_flight' = [id \in ids |-> 0]
           /\ computations' = [id \in ids |-> 0]
           /\ last_computed' = [id \in ids |-> None]
           /\ computed_at' = [id \in ids |-> 0]
           /\ warnings' = [id \in ids |-> 0]
    /\ main_pc' = "start"
    /\ UNCHANGED <<tick_vars, fixed_vars, status_vars, calls, now, sent, channel>>

ParseErr ==
    /\ main_pc = "parse"
    /\ parse_config(ConfigFiles[config]) = None
    /\ main_pc' = "error"
    /\ UNCHANGED <<tick_vars, fixed_vars, obs_vars, segments, status_vars, calls, now, sent,
                   channel, task_vars>>

(***************************************************************************)
(* "bar": the StatusBar of status_bar.rs, driven by its owner.             *)
(***************************************************************************)
\* StatusBar::new(segments): every segment is computed, then the text is set
BarNew ==
    /\ program = "bar"
    /\ main_pc = "start"
    /\ \E texts \in [SegmentIds -> UNION {ComputedTexts(Seg(id)) : id \in SegmentIds}] :
          /\ \A id \in SegmentIds : texts[id] \in ComputedTexts(Seg(id))
          /\ StatusBar_new(texts)
          /\ last_computed' = [id \in SegmentIds |-> Some(texts[id])]
    /\ computations' = [id \in SegmentIds |-> 1]
    /\ main_pc' = "loop"
    /\ UNCHANGED <<tick_vars, fixed_vars, computed_at, warnings, segments, calls, now, sent, channel,
                   task_pc, pending, last_update, deadline, in_flight>>

\* StatusBar::update_segment(segment): the segment is recomputed in place
BarUpdate ==
    /\ program = "bar"
    /\ main_pc = "loop"
    /\ calls < MaxUpdates
    /\ \E segment \in SegmentIds :
          /\ \E text \in ComputedTexts(Seg(segment)) :
                /\ StatusBar_update_segment(segment, text)
                /\ last_computed' = [last_computed EXCEPT ![segment] = Some(text)]
          /\ computations' = [computations EXCEPT ![segment] = @ + 1]
    /\ calls' = calls + 1
    /\ UNCHANGED <<tick_vars, fixed_vars, computed_at, warnings, main_pc, segments, now, sent, channel,
                   task_pc, pending, last_update, deadline, in_flight>>

(***************************************************************************)
(* "lib": lib.rs run and Segment::run_update_loop.                         *)
(***************************************************************************)
\* Signals::new succeeds for the signals a process may handle: not for the
\* ones signal-hook forbids (SIGILL, SIGFPE, SIGKILL, SIGSEGV, SIGSTOP), nor
\* for the two below SIGRTMIN that libc keeps, nor for numbers that are no
\* signal.
Registrable(signal) == signal \in (1 .. SIGRTMAX) \ {4, 8, 9, 11, 19, 32, 33}

\* the task of segment id listens to signal
Subscribed(id, signal) == signal \in Range(Seg(id).signals)

\* the task of segment id has registered its signals
Registered(id) == task_pc[id] \in {"computing", "waiting"}

\* (mutant of StartComputation: last_update is not taken anew, the wait
\* that follows ends at the deadline scheduled before)
StartComputation_KeepStamp(id) ==
    /\ last_update' = last_update
    /\ in_flight' = [in_flight EXCEPT ![id] = @ + 1]
    /\ computations' = [computations EXCEPT ![id] = @ + 1]
    /\ task_pc' = [task_pc EXCEPT ![id] = "computing"]

\* top of the loop of run_update_loop: last_update is taken and the
\* computation starts
StartComputation(id) ==
    /\ last_update' = [last_update EXCEPT ![id] = now]
    /\ in_flight' = [in_flight EXCEPT ![id] = @ + 1]
    /\ computations' = [computations EXCEPT ![id] = @ + 1]
    /\ task_pc' = [task_pc EXCEPT ![id] = "computing"]

\* run: task::spawn of the next segment; after the last one, StatusBar::new
LibSpawn ==
    /\ program = "lib"
    /\ main_pc = "start"
    /\ \E id \in SegmentIds :
          /\ task_pc[id] = "unspawned"
          /\ \A other \in SegmentIds : other < id => task_pc[other] # "unspawned"
          /\ task_pc' = [task_pc EXCEPT ![id] = "spawned"]
          /\ main_pc' = IF id = num_segments - 1 THEN "new" ELSE "start"
    /\ UNCHANGED <<tick_vars, fixed_vars, obs_vars, segments, status_vars, calls, now, sent,
                   channel, pending, last_update, deadline, in_flight, computations>>

\* run: StatusBar::new(num_segments): the bar is built from the number of
\* segments alone (the segments were moved into their tasks), so no segment
\* has a text yet
LibNew ==
    /\ program = "lib"
    /\ main_pc = "new"
    /\ StatusBar_new([id \in SegmentIds |-> ""])
    /\ main_pc' = "loop"
    /\ UNCHANGED <<tick_vars, fixed_vars, obs_vars, segments, calls, now, sent, channel, task_vars>>

\* run: `while let Some((id, text)) = rx.next().await`
LibRecv ==
    /\ program = "lib"
    /\ main_pc = "loop"
    /\ channel # <<>>
    /\ StatusBar_update_segment(Head(channel)[1], Head(channel)[2])
    /\ channel' = Tail(channel)
    /\ UNCHANGED <<tick_vars, fixed_vars, obs_vars, main_pc, segments, calls, now, sent, task_vars>>

\* run_update_loop: Signals::new(&self.signals).unwrap(), then the first
\* turn of the loop
TaskStart(id) ==
    /\ program = "lib"
    /\ Running
    /\ task_pc[id] = "spawned"
    /\ \A signal \in Range(Seg(id).signals) : Registrable(signal)
    /\ StartComputation(id)
    /\ UNCHANGED <<tick_vars, fixed_vars, obs_vars, main_pc, segments, status_vars, calls, now,
                   sent, channel, pending, deadline>>

\* run_update_loop: Signals::new fails and unwrap panics; a panic in a task
\* aborts the process
TaskPanic(id) ==
    /\ program = "lib"
    /\ Running
    /\ task_pc[id] = "spawned"
    /\ \E signal \in Range(Seg(id).signals) : ~Registrable(signal)
    /\ task_pc' = [task_pc EXCEPT ![id] = "panicked"]
    /\ main_pc' = "aborted"
    /\ UNCHANGED <<tick_vars, fixed_vars, obs_vars, segments, status_vars, calls, now, sent,
                   channel, pending, last_update, deadline, in_flight, computations>>

\* run_update_loop: self.compute_value() panics (an unwrap of from_utf8 in
\* ProgramOutput::compute_value).  The task ends; whether the panic of a task
\* also ends the process depends on the executor.
TaskComputePanic(id) ==
    /\ program = "lib"
    /\ Running
    /\ task_pc[id] = "computing"
    /\ Kind_panics(Seg(id).kind)
    /\ task_pc' = [task_pc EXCEPT ![id] = "failed"]
    /\ in_flight' = [in_flight EXCEPT ![id] = @ - 1]
    /\ main_pc' \in {main_pc, "aborted"}
    /\ UNCHANGED <<tick_vars, fixed_vars, obs_vars, segments, status_vars, calls, now, sent,
                   channel, pending, last_update, deadline, computations>>

\* (mutant of WaitAfter: without an interval the loop starts over at once)
WaitAfter_Again(update_interval, duration, t) ==
    IF IsSome(update_interval)
    THEN IF Unwrap(update_interval) >= duration
         THEN <<"wait", Some(t + (Unwrap(update_interval) - duration))>>
         ELSE <<"again">>
    ELSE <<"again">>

\* (mutant of WaitAfter: the wait is the whole interval, whatever time the
\* computation took)
WaitAfter_Full(update_interval, duration, t) ==
    IF IsSome(update_interval)
    THEN IF Unwrap(update_interval) >= duration
         THEN <<"wait", Some(t + Unwrap(update_interval))>>
         ELSE <<"again">>
    ELSE <<"wait", None>>

\* (mutant of WaitAfter: after a computation longer than the interval the
\* task goes into a wait that is over at once)
WaitAfter_Wait(update_interval, duration, t) ==
    IF IsSome(update_interval)
    THEN IF Unwrap(update_interval) >= duration
         THEN <<"wait", Some(t + (Unwrap(update_interval) - duration))>>
         ELSE <<"wait", Some(t)>>
    ELSE <<"wait", None>>

\* the wait run_update_loop chooses after a computation that took `duration`:
\* <<"wait", Some(deadline)>>, <<"wait", None>> (signals only), or <<"again">>
\* when the computation took longer than the interval
WaitAfter(update_interval, duration, t) ==
    IF IsSome(update_interval)
    THEN IF Unwrap(update_interval) >= duration
         THEN <<"wait", Some(t + (Unwrap(update_interval) - duration))>>
         ELSE <<"again">>
    ELSE <<"wait", None>>

\* (mutant of channel_send: the message overtakes the ones in the channel)
channel_send_Front(queue, message) == <<message>> \o queue

\* Sender::send on the unbounded channel of run: the message is queued behind
\* the ones already there
channel_send(queue, message) == Append(queue, message)

\* run_update_loop: compute_value returns, the text is sent, and the task
\* waits (after a warning, starts over at once)
TaskSend(id) ==
    /\ program = "lib"
    /\ Running
    /\ task_pc[id] = "computing"
    /\ \E text \in ComputedTexts(Seg(id)) :
          /\ channel' = channel_send(channel, <<id, text>>)
          /\ last_computed' = [last_computed EXCEPT ![id] = Some(text)]
    /\ LET wait == WaitAfter(Seg(id).update_interval, now - last_update[id], now)
       IN  IF wait[1] = "wait"
           THEN /\ task_pc' = [task_pc EXCEPT ![id] = "waiting"]
                /\ deadline' = [deadline EXCEPT ![id] = wait[2]]
                /\ in_flight' = [in_flight EXCEPT ![id] = @ - 1]
                /\ UNCHANGED <<last_update, computations, warnings>>
           ELSE /\ warnings' = [warnings EXCEPT ![id] = @ + 1]
                /\ last_update' = [last_update EXCEPT ![id] = now]
                /\ computations' = [computations EXCEPT ![id] = @ + 1]
                /\ UNCHANGED <<task_pc, deadline, in_flight>>
    /\ UNCHANGED <<tick_vars, fixed_vars, computed_at, main_pc, segments, status_vars, calls, now,
                   sent, pending>>

\* (mutants of MayStart: a trigger starts a computation while one is in
\* progress; a trigger is served only once the timeout has expired)
MayStart_Any(id) == task_pc[id] \in {"waiting", "computing"}
MayStart_Due(id) ==
    /\ task_pc[id] = "waiting"
    /\ IsSome(deadline[id])
    /\ now >= Unwrap(deadline[id])

\* a trigger may start a computation of segment id
MayStart(id) == task_pc[id] = "waiting"

\* run_update_loop: signals.next() yields a signal while the task waits
TaskSignal(id) ==
    /\ program = "lib"
    /\ Running
    /\ MayStart(id)
    /\ \E signal \in pending[id] :
          pending' = [pending EXCEPT ![id] = @ \ {signal}]
    /\ StartComputation(id)
    /\ UNCHANGED <<tick_vars, fixed_vars, obs_vars, main_pc, segments, status_vars, calls, now,
                   sent, channel, deadline>>

\* run_update_loop: the timeout of the wait expires (no signal is pending:
\* timeout polls signals.next() first)
TaskTimeout(id) ==
    /\ program = "lib"
    /\ Running
    /\ MayStart(id)
    /\ pending[id] = {}
    /\ IsSome(deadline[id])
    /\ now >= Unwrap(deadline[id])
    /\ StartComputation(id)
    /\ UNCHANGED <<tick_vars, fixed_vars, obs_vars, main_pc, segments, status_vars, calls, now,
                   sent, channel, pending, deadline>>

\* the environment delivers a signal some task has registered: it becomes
\* pending in the Signals of every task that registered it
LibSignalArrives(signal) ==
    /\ program = "lib"
    /\ Running
    /\ sent < MaxSignals
    /\ \E id \in SegmentIds : Registered(id) /\ Subscribed(id, signal)
    /\ pending' = [id \in SegmentIds |->
                      IF Registered(id) /\ Subscribed(id, signal)
                      THEN pending[id] \cup {signal}
                      ELSE pending[id]]
    /\ sent' = sent + 1
    /\ UNCHANGED <<tick_vars, fixed_vars, obs_vars, main_pc, segments, status_vars, calls, now,
                   channel, task_pc, last_update, deadline, in_flight, computations>>

\* a waiting task whose wait is over runs before the clock moves on
WakeDue(id) ==
    /\ task_pc[id] = "waiting"
    /\ \/ pending[id] # {}
       \/ IsSome(deadline[id]) /\ now >= Unwrap(deadline[id])

\* a Constant returns at once; a program takes any time to run
Instant(id) ==
    /\ task_pc[id] \in {"spawned", "computing"}
    /\ Seg(id).kind.type = "constant"

\* one second passes: not before the tasks and the loop that are ready to
\* run at this instant have run
LibTick ==
    /\ program = "lib"
    /\ Running
    /\ now < MaxTime
    /\ main_pc = "loop"
    /\ channel = <<>>
    /\ \A id \in SegmentIds : ~WakeDue(id) /\ ~Instant(id)
    /\ now' = now + 1
    /\ UNCHANGED <<tick_vars, fixed_vars, obs_vars, main_pc, segments, status_vars, calls, sent,
                   channel, task_vars>>

\* every signal number some segment of the configuration uses
UsedSignals == UNION {Range(Seg(id).signals) : id \in SegmentIds}

(***************************************************************************)
(* "tick": main.rs update_loop and signals.rs spawn_signal_handler.        *)
(* Segment::update and Segment::get_value of this build are not in the     *)
(* sources; they are modelled from the design document.                    *)
(***************************************************************************)
\* num_integer::gcd
RECURSIVE gcd(_, _)
gcd(a, b) == IF b = 0 THEN a ELSE gcd(b, a % b)

\* (mutant of ReduceGcd: the first interval is taken for the tick)
ReduceGcd_First(millis) == millis[1]

RECURSIVE ReduceGcd(_)
ReduceGcd(millis) ==
    IF Len(millis) = 1
    THEN millis[1]
    ELSE gcd(ReduceGcd(SubSeq(millis, 1, Len(millis) - 1)), millis[Len(millis)])

\* Width, in bits, of the integer the milliseconds of an interval are cast
\* to (u64 in the code).
MillisBits == 14

\* `duration.as_millis() as u64`, for a duration given in seconds
as_millis_u64(duration) == (duration * 1000) % 2^MillisBits

\* the intervals of the segments that have one, in milliseconds
IntervalMillis(segs) ==
    LET F[k \in 0 .. Len(segs)] ==
            IF k = 0 THEN <<>>
            ELSE IF IsSome(segs[k].update_interval)
                 THEN Append(F[k - 1], as_millis_u64(Unwrap(segs[k].update_interval)))
                 ELSE F[k - 1]
    IN  F[Len(segs)]

\* main.rs update_interval: the gcd of the segments' intervals (in
\* milliseconds), None when no segment has one
update_interval(segs) ==
    IF IntervalMillis(segs) = <<>> THEN None
    ELSE Some(ReduceGcd(IntervalMillis(segs)))

\* update_loop: the general update interval (milliseconds) is the one of the
\* configuration, or else the one calculated from the segments
update_loop_interval(config_update_interval, segs) ==
    OrElse(config_update_interval, update_interval(segs))

\* the general interval of update_loop, in seconds of the clock
LoopInterval ==
    LET interval == update_loop_interval(ConfigFiles[config].update_interval, segments)
    IN  IF IsSome(interval) THEN Some(Unwrap(interval) \div 1000) ELSE None

\* signals.rs: the ids pushed under `signal`, segment by segment in the order
\* of the list, once for each time the segment names the signal
RECURSIVE SubscribersUpTo(_, _, _)
SubscribersUpTo(segs, signal, n) ==
    IF n = 0 THEN <<>>
    ELSE SubscribersUpTo(segs, signal, n - 1)
            \o [k \in 1 .. Cardinality({m \in DOMAIN segs[n].signals :
                                          segs[n].signals[m] = signal})
                  |-> n - 1]

\* (mutant of signals_map: every segment is listed under every signal)
signals_map_All(segs, signal) == [k \in 1 .. Len(segs) |-> k - 1]

\* signals.rs signals_map[&signal]
signals_map(segs, signal) == SubscribersUpTo(segs, signal, Len(segs))

\* (mutant of Stale: a segment with an interval is recomputed on every tick)
Stale_Always(id, t) == IsSome(Seg(id).update_interval)

\* Segment::get_value recomputes the segment: it has an interval and the
\* time since its last update is at least that interval
Stale(id, t) ==
    /\ IsSome(Seg(id).update_interval)
    /\ t - last_update[id] >= Unwrap(Seg(id).update_interval)

\* main.rs run / update_loop up to the loop: the signal handler is spawned,
\* every segment is computed and the first status text is set
TickStart ==
    /\ program = "tick"
    /\ main_pc = "start"
    /\ \A signal \in UsedSignals : Registrable(signal)
    /\ \E texts \in [SegmentIds -> UNION {ComputedTexts(Seg(id)) : id \in SegmentIds}] :
          /\ \A id \in SegmentIds : texts[id] \in ComputedTexts(Seg(id))
          /\ segment_texts' = texts
          /\ current_text' = Join(texts)
          /\ set_status(Join(texts))
          /\ last_computed' = [id \in SegmentIds |-> Some(texts[id])]
    /\ computed_at' = [id \in SegmentIds |-> now]
    /\ last_update' = [id \in SegmentIds |-> now]
    /\ computations' = [id \in SegmentIds |-> 1]
    /\ loop_now' = now
    /\ main_pc' = "recv"
    /\ UNCHANGED <<fixed_vars, warnings, segments, calls, now, sent, channel,
                   task_pc, pending, deadline, in_flight, segment_ref>>

\* spawn_signal_handler: Signals::new(used_signals).unwrap() panics
TickPanic ==
    /\ program = "tick"
    /\ main_pc = "start"
    /\ \E signal \in UsedSignals : ~Registrable(signal)
    /\ main_pc' = "aborted"
    /\ UNCHANGED <<tick_vars, fixed_vars, obs_vars, segments, status_vars, calls,
                   now, sent, channel, task_vars>>

\* update_loop: recv / recv_timeout returns a segment_ref; its update starts
TickRecv ==
    /\ program = "tick"
    /\ main_pc = "recv"
    /\ channel # <<>>
    /\ segment_ref' = Some(Head(channel))
    /\ channel' = Tail(channel)
    /\ in_flight' = [in_flight EXCEPT ![Head(channel)] = @ + 1]
    /\ computations' = [computations EXCEPT ![Head(channel)] = @ + 1]
    /\ main_pc' = "update"
    /\ UNCHANGED <<loop_now, fixed_vars, obs_vars, segments, status_vars, calls, now,
                   sent, task_pc, pending, last_update, deadline>>

\* update_loop: segments[segment_ref].update(&now) returns
TickUpdate ==
    /\ program = "tick"
    /\ main_pc = "update"
    /\ LET id == Unwrap(segment_ref)
       IN  /\ \E text \in ComputedTexts(Seg(id)) :
                 /\ segment_texts' = [segment_texts EXCEPT ![id] = text]
                 /\ last_computed' = [last_computed EXCEPT ![id] = Some(text)]
           /\ computed_at' = [computed_at EXCEPT ![id] = now]
           /\ last_update' = [last_update EXCEPT ![id] = loop_now]
           /\ in_flight' = [in_flight EXCEPT ![id] = @ - 1]
    /\ segment_ref' = None
    /\ main_pc' = "compose"
    /\ UNCHANGED <<loop_now, fixed_vars, warnings, segments, current_text, published,
                   calls, now, sent, channel, task_pc, pending, deadline,
                   computations>>

\* update_loop: recv_timeout(interval) times out
TickTimeout ==
    /\ program = "tick"
    /\ main_pc = "recv"
    /\ channel = <<>>
    /\ IsSome(LoopInterval)
    /\ now >= loop_now + Unwrap(LoopInterval)
    /\ main_pc' = "compose"
    /\ UNCHANGED <<tick_vars, fixed_vars, obs_vars, segments, status_vars, calls,
                   now, sent, channel, task_vars>>

\* update_loop: get_status_text (the stale segments are recomputed), the
\* text is set when it changed, and the loop starts over
TickCompose ==
    /\ program = "tick"
    /\ main_pc = "compose"
    /\ \E texts \in [SegmentIds -> UNION {ComputedTexts(Seg(id)) : id \in SegmentIds}
                                      \cup Range(segment_texts)] :
          /\ \A id \in SegmentIds :
                IF Stale(id, loop_now)
                THEN texts[id] \in ComputedTexts(Seg(id))
                ELSE texts[id] = segment_texts[id]
          /\ segment_texts' = texts
          /\ last_computed' = [id \in SegmentIds |-> Some(texts[id])]
          /\ IF TextChanged(current_text, Join(texts))
             THEN /\ set_status(Join(texts))
                  /\ current_text' = Join(texts)
             ELSE UNCHANGED <<current_text, published>>
    /\ computed_at' = [id \in SegmentIds |->
                          IF Stale(id, loop_now) THEN now ELSE computed_at[id]]
    /\ last_update' = [id \in SegmentIds |->
                          IF Stale(id, loop_now) THEN loop_now ELSE last_update[id]]
    /\ computations' = [id \in SegmentIds |->
                           IF Stale(id, loop_now)
                           THEN computations[id] + 1 ELSE computations[id]]
    /\ loop_now' = now
    /\ main_pc' = "recv"
    /\ UNCHANGED <<fixed_vars, warnings, segments, calls, now, sent, channel,
                   task_pc, pending, deadline, in_flight, segment_ref>>

\* update_loop: a computation made by the loop (the first ones, the update
\* of a signalled segment, the recomputation of a stale one) panics; the loop
\* runs on the main thread, the process ends
TickComputePanic ==
    /\ program = "tick"
    /\ \/ /\ main_pc = "start"
          /\ \A signal \in UsedSignals : Registrable(signal)
          /\ \E id \in SegmentIds : Kind_panics(Seg(id).kind)
       \/ /\ main_pc = "update"
          /\ Kind_panics(Seg(Unwrap(segment_ref)).kind)
       \/ /\ main_pc = "compose"
          /\ \E id \in SegmentIds : Stale(id, loop_now) /\ Kind_panics(Seg(id).kind)
    /\ main_pc' = "aborted"
    /\ UNCHANGED <<tick_vars, fixed_vars, obs_vars, segments, status_vars, calls, now, sent,
                   channel, task_vars>>

\* the signal handler: a signal arrives and the ids of signals_map[&signal]
\* are sent through the channel
TickSignalArrives(signal) ==
    /\ program = "tick"
    /\ main_pc \in {"recv", "update", "compose"}
    /\ sent < MaxSignals
    /\ channel' = channel \o signals_map(segments, signal)
    /\ sent' = sent + 1
    /\ UNCHANGED <<tick_vars, fixed_vars, obs_vars, main_pc, segments, status_vars,
                   calls, now, task_vars>>

\* the loop is inside a computation that takes time (the run of a program)
TickComputing ==
    \/ /\ main_pc = "update"
       /\ Seg(Unwrap(segment_ref)).kind.type = "program"
    \/ /\ main_pc = "compose"
       /\ \E id \in SegmentIds : Stale(id, loop_now) /\ Seg(id).kind.type = "program"

\* the loop waits and nothing wakes it at this instant
TickWaiting ==
    /\ main_pc = "recv"
    /\ channel = <<>>
    /\ IsSome(LoopInterval) => now < loop_now + Unwrap(LoopInterval)

\* one second passes
TickTick ==
    /\ program = "tick"
    /\ now < MaxTime
    /\ TickComputing \/ TickWaiting
    /\ now' = now + 1
    /\ UNCHANGED <<tick_vars, fixed_vars, obs_vars, main_pc, segments, status_vars,
                   calls, sent, channel, task_vars>>

\* the signal listeners (Signals instances) of the process, each with the
\* signals it is registered for: one for every task that has got past
\* Signals::new ("lib"), the one of spawn_signal_handler ("tick")
Listeners ==
    IF program = "lib"
    THEN {<<id, Range(Seg(id).signals)>> : id \in {k \in SegmentIds : Registered(k)}}
    ELSE IF program = "tick" /\ main_pc \in {"recv", "update", "compose"}
         THEN {<<0, UsedSignals>>}
         ELSE {}

\* the runs of the model: a build and the configuration file it reads
Runs ==
    {<<"lib", 1>>, <<"lib", 2>>, <<"lib", 4>>, <<"lib", 5>>,
     <<"bar", 1>>, <<"bar", 2>>, <<"bar", 3>>,
     <<"lib", 6>>, <<"lib", 10>>,
     <<"tick", 1>>, <<"tick", 2>>, <<"tick", 3>>, <<"tick", 4>>, <<"tick", 5>>,
     <<"tick", 6>>, <<"tick", 7>>, <<"tick", 8>>, <<"tick", 9>>}

Init ==
    /\ \E run \in Runs :
          /\ program = run[1]
          /\ config = run[2]
    /\ main_pc = "parse"
    /\ segments = <<>>
    /\ segment_texts = <<>>
    /\ current_text = ""
    /\ published = <<>>
    /\ calls = 0
    /\ now = 0
    /\ sent = 0
    /\ channel = <<>>
    /\ task_pc = <<>>
    /\ pending = <<>>
    /\ last_update = <<>>
    /\ deadline = <<>>
    /\ in_flight = <<>>
    /\ computations = <<>>
    /\ loop_now = 0
    /\ segment_ref = None
    /\ input = None
    /\ output = None
    /\ last_computed = <<>>
    /\ computed_at = <<>>
    /\ warnings = <<>>

Next ==
    \/ ParseOk
    \/ ParseErr
    \/ BarNew
    \/ BarUpdate
    \/ LibSpawn
    \/ LibNew
    \/ LibRecv
    \/ \E id \in SegmentIds : TaskStart(id)
    \/ \E id \in SegmentIds : TaskPanic(id)
    \/ \E id \in SegmentIds : TaskComputePanic(id)
    \/ \E id \in SegmentIds : TaskSend(id)
    \/ \E id \in SegmentIds : TaskSignal(id)
    \/ \E id \in SegmentIds : TaskTimeout(id)
    \/ \E signal \in UsedSignals : LibSignalArrives(signal)
    \/ LibTick
    \/ TickStart
    \/ TickPanic
    \/ TickRecv
    \/ TickUpdate
    \/ TickTimeout
    \/ TickCompose
    \/ TickComputePanic
    \/ \E signal \in UsedSignals : TickSignalArrives(signal)
    \/ TickTick

Spec == Init /\ [][Next]_vars

\* The steps the process takes by itself, and the clock: a task that is
\* ready runs, a computation returns, the loop of run takes what is in the
\* channel, time passes.  The arrival of a signal is up to the environment
\* and a panic is not bound to happen: neither is under fairness.
FairSpec ==
    /\ Spec
    /\ WF_vars(ParseOk)
    /\ WF_vars(LibSpawn)
    /\ WF_vars(LibNew)
    /\ WF_vars(LibRecv)
    /\ WF_vars(\E id \in SegmentIds : TaskStart(id))
    /\ WF_vars(\E id \in SegmentIds : TaskSend(id))
    /\ WF_vars(\E id \in SegmentIds : TaskSignal(id))
    /\ WF_vars(\E id \in SegmentIds : TaskTimeout(id))
    /\ WF_vars(LibTick)

(***************************************************************************)
(* "test": one call of one function of the crate on given arguments, as    *)
(* the unit tests of segments.rs, program_output.rs and color.rs make it.  *)
(* `input` holds the name of the function and its arguments, `output` the  *)
(* result once the call has returned.                                      *)
(***************************************************************************)
\* Longest output of a program, in bytes.
MaxLen == 3

\* the sequences of at most n elements of S
RECURSIVE SeqsUpTo(_, _)
SeqsUpTo(S, n) ==
    IF n = 0 THEN {<<>>}
    ELSE SeqsUpTo(S, n - 1)
            \cup {Append(q, x) : q \in {r \in SeqsUpTo(S, n - 1) : Len(r) = n - 1},
                                 x \in S}

\* what Command::output() may return
Results ==
    {SpawnErr}
        \cup {Output(success, stdout, stderr) :
                 success \in BOOLEAN,
                 stdout \in SeqsUpTo({"a", " ", "\n", InvalidByte}, MaxLen),
                 stderr \in {<<>>, <<"e", "\n">>, <<InvalidByte>>}}

\* the calls of ProgramOutput::compute_value
ProgramInputs ==
    {[fn |-> "ProgramOutput::compute_value", self |-> CommandKind(t, {}), result |-> r] :
        t \in BOOLEAN, r \in Results}

\* Longest interval of a segment, in seconds, and longest list of segments.
MaxInterval == 6
MaxSegments == 3

\* the intervals a segment may have: none, some seconds, or so many that
\* their milliseconds do not fit the integer they are cast to
Intervals ==
    {None} \cup {Some(d) : d \in 1 .. MaxInterval} \cup {Some(2^(MillisBits - 3))}

\* the calls of update_loop, as far as its interval goes: the general update
\* interval of the configuration (milliseconds) and the segments
IntervalInputs ==
    {[fn |-> "update_loop", config_update_interval |-> c, segments |-> segs] :
        c \in {None, Some(3000)},
        segs \in SeqsUpTo({[update_interval |-> i] : i \in Intervals}, MaxSegments)}

\* the colours of a slot: none, one below 128 and one from 128 on
Colors == {Uncolored, Colored(2), Colored(200)}

Colorings ==
    [text : Colors, left_separator : Colors, right_separator : Colors, icon : Colors]

\* the calls of Segment::compute_value: the fields of the segment that the
\* rendering reads, and the value its kind returns
RenderInputs ==
    {[fn |-> "Segment::compute_value",
      self |-> [left_separator |-> l, right_separator |-> r, icon |-> i,
                hide_if_empty |-> h, coloring |-> c],
      new_value |-> v] :
        l \in {"", ">"}, r \in {"", "<"}, i \in {"", "$"}, h \in BOOLEAN,
        c \in Colorings, v \in {"", "t"}}

\* colourings whose slots are unset or hold colour c
ColoringsOf(c) ==
    [text : {Uncolored, Colored(c)}, left_separator : {Uncolored, Colored(c)},
     right_separator : {Uncolored, Colored(c)}, icon : {Uncolored, Colored(c)}]

\* the calls of Segment::new_from_config: what the segment sets for its
\* separators, icon and colours, and the defaults of the Configuration
ConstructInputs ==
    {[fn |-> "Segment::new_from_config",
      left_separator |-> l, right_separator |-> r, icon |-> i, coloring |-> c,
      config |-> [left_separator |-> dl, right_separator |-> dr, coloring |-> dc]] :
        l \in {None, Some(""), Some(">")}, r \in {None, Some("<")},
        i \in {None, Some("$")}, c \in ColoringsOf(6),
        dl \in {None, Some("|")}, dr \in {None, Some("|")}, dc \in ColoringsOf(2)}

\* the calls of Segment::convert_signal_offsets: every offset of the
\* unsigned type, alone and after a valid one
ConvertInputs ==
    {[fn |-> "Segment::convert_signal_offsets", signal_offsets |-> offsets] :
        offsets \in {<<offset>> : offset \in 0 .. 2^IntBits - 1}
                       \cup {<<1, offset>> : offset \in 0 .. 2^IntBits - 1}}

TestInputs ==
    ProgramInputs \cup IntervalInputs \cup RenderInputs \cup ConstructInputs
        \cup ConvertInputs

\* the call returns `result`
Return(result) ==
    /\ program = "test"
    /\ output = None
    /\ output' = Some(result)
    /\ UNCHANGED <<program, config, input, main_pc, segments, status_vars, calls,
                   now, sent, channel, task_vars, tick_vars, obs_vars>>

TestProgramOutput ==
    /\ input.fn = "ProgramOutput::compute_value"
    /\ Return(ProgramOutput_compute_value(input.self, input.result))

TestInit ==
    /\ program = "test"
    /\ input \in TestInputs
    /\ output = None
    /\ config = 0
    /\ main_pc = "test"
    /\ segments = <<>>
    /\ segment_texts = <<>>
    /\ current_text = ""
    /\ published = <<>>
    /\ calls = 0
    /\ now = 0
    /\ sent = 0
    /\ channel = <<>>
    /\ task_pc = <<>>
    /\ pending = <<>>
    /\ last_update = <<>>
    /\ deadline = <<>>
    /\ in_flight = <<>>
    /\ computations = <<>>
    /\ loop_now = 0
    /\ segment_ref = None
    /\ last_computed = <<>>
    /\ computed_at = <<>>
    /\ warnings = <<>>

TestUpdateLoop ==
    /\ input.fn = "update_loop"
    /\ Return(update_loop_interval(input.config_update_interval, input.segments))

TestComputeValue ==
    /\ input.fn = "Segment::compute_value"
    /\ Return(Segment_compute_value(input.self, input.new_value))

TestNewFromConfig ==
    /\ input.fn = "Segment::new_from_config"
    /\ Return(Segment_new_from_config(ConstantKind("t"), None, <<>>,
                                      input.left_separator, input.right_separator,
                                      input.icon, FALSE, input.coloring, input.config))

\* convert_signal_offsets returns; when an addition overflows the signed
\* type a debug build panics instead (a release build wraps around)
TestConvertSignalOffsets ==
    /\ input.fn = "Segment::convert_signal_offsets"
    /\ \/ Return([panicked |-> FALSE,
                  value |-> convert_signal_offsets(input.signal_offsets)])
       \/ /\ OffsetsOverflow(input.signal_offsets)
          /\ Return([panicked |-> TRUE, value |-> None])

TestNext ==
    \/ TestProgramOutput
    \/ TestConvertSignalOffsets
    \/ TestNewFromConfig
    \/ TestComputeValue
    \/ TestUpdateLoop

TestSpec == TestInit /\ [][TestNext]_vars

(***************************************************************************)
(* Properties.                                                             *)
(***************************************************************************)
\* the text the sink was last given
LastPublished == published[Len(published)]

\* the texts of at most three segments, one after the other
InOrder(texts) ==
    IF DOMAIN texts = {} THEN ""
    ELSE IF DOMAIN texts = {0} THEN texts[0]
    ELSE IF DOMAIN texts = {0, 1} THEN texts[0] \o texts[1]
    ELSE texts[0] \o texts[1] \o texts[2]

\* a step that composes the status text after an update of a cached text:
\* update_segment called by run ("lib") or by the owner ("bar"), the end of
\* a turn of update_loop ("tick")
ComposeStep ==
    \/ program = "lib" /\ main_pc = "loop" /\ Len(channel') < Len(channel)
    \/ program = "bar" /\ calls' = calls + 1
    \/ program = "tick" /\ main_pc = "compose" /\ main_pc' = "recv"

\* C1: after an update of a segment's cached text the sink is called exactly
\* when the newly composed text differs from the last published text: then it
\* is called once, with the new text, which becomes the last published text;
\* otherwise it is not called and the last published text stays.
C1_PublishExactlyWhenChanged ==
    [][ComposeStep =>
          IF InOrder(segment_texts') # LastPublished
          THEN /\ published' = Append(published, InOrder(segment_texts'))
               /\ current_text' = InOrder(segment_texts')
          ELSE /\ published' = published
               /\ current_text' = current_text]_vars

\* C1 witness: of two updates made by the owner of the bar, one changed the
\* text and was published, the other left it equal and was not
C1_Witness ==
    /\ program = "bar"
    /\ calls = 2
    /\ Len(published) = 2

\* C2: no two consecutive calls of the sink, the one of startup included,
\* carry equal texts.
C2_NoRepeatedPublish ==
    \A k \in 1 .. Len(published) - 1 : published[k] # published[k + 1]

\* C2 witness: the loop of run has applied more results than it has published
\* texts (a recomputation returned the text already cached)
C2_Witness ==
    /\ program = "lib"
    /\ main_pc = "loop"
    /\ channel = <<>>
    /\ Len(published) = 3
    /\ \E id \in SegmentIds : computations[id] - in_flight[id] >= 3

\* number of results of segment id waiting in the channel of run
InChannel(id) ==
    IF program = "lib"
    THEN Cardinality({k \in DOMAIN channel : channel[k][1] = id})
    ELSE 0

\* number of computations of segment id that ended in a panic (the task of
\* the segment ends with its first one)
Failed(id) == IF program = "lib" /\ task_pc[id] = "failed" THEN 1 ELSE 0

\* a text computed by segment id has reached the cache of the status bar
Delivered(id) == computations[id] - in_flight[id] - InChannel(id) - Failed(id) >= 1

\* C3: nothing is published by the coordinating loop while some segment has
\* not delivered its initial value (the first entry of published is the text
\* set at construction, before the loop).
C3_NoPublishBeforeAllDelivered ==
    Len(published) >= 2 => \A id \in SegmentIds : Delivered(id)

\* C4: a subscribed signal that arrives while the segment waits starts its
\* recomputation at that very instant, whatever the timeout of the wait (and
\* when there is none): the wake-up is enabled, the clock does not move
\* before it, and it stamps last_update with the instant of the signal.  In
\* the shared-tick build the request at the head of the channel is served at
\* once and without a staleness check.
C4_SignalRecomputesAtOnce ==
    /\ [](\A id \in SegmentIds :
             (program = "lib" /\ Running /\ task_pc[id] = "waiting"
                 /\ pending[id] # {}) => ENABLED TaskSignal(id))
    /\ []((program = "tick" /\ main_pc = "recv" /\ channel # <<>>)
             => ENABLED TickRecv)
    /\ [][/\ \A id \in SegmentIds :
                (program = "lib" /\ task_pc[id] = "waiting" /\ pending[id] # {}) =>
                    /\ now' = now
                    /\ \/ task_pc'[id] = "waiting"
                       \/ /\ task_pc'[id] = "computing"
                          /\ computations'[id] = computations[id] + 1
                          /\ last_update'[id] = now
          /\ (program = "tick" /\ main_pc = "recv" /\ channel # <<>>) =>
                /\ now' = now
                /\ \/ main_pc' = "recv"
                   \/ /\ main_pc' = "update"
                      /\ segment_ref' = Some(Head(channel))
                      /\ computations'[Head(channel)] =
                            computations[Head(channel)] + 1]_vars

\* C4 witness: at instant 0 a segment with an interval of 2 s has been
\* computed twice: the second computation was started by a signal
C4_Witness ==
    /\ program = "lib"
    /\ config = 1
    /\ main_pc = "loop"
    /\ now = 0
    /\ computations[0] = 2
    /\ last_update[0] = 0

\* the requests one arrival of a signal appends to the channel
Requests == SubSeq(channel', Len(channel) + 1, Len(channel'))

\* C5: one arrival of signal S produces a request for exactly the segments
\* that subscribe to S, in ascending order of their ids.
C5_FanOut ==
    [][\A signal \in UsedSignals :
          TickSignalArrives(signal) =>
             /\ Range(Requests) = {id \in SegmentIds : Subscribed(id, signal)}
             /\ \A k \in 1 .. Len(Requests) - 1 : Requests[k] <= Requests[k + 1]]_vars

\* C5 witness: one arrival of the signal of segments 0 and 2 has queued
\* requests for 0 and 2, none for 1
C5_Witness ==
    /\ program = "tick"
    /\ config = 3
    /\ sent = 1
    /\ channel = <<0, 2>>

\* the update-all signal of the configuration
UpdateAll == ConfigFiles[config].update_all_signal
UpdateAllSignal == ResolveSignal(Unwrap(UpdateAll))

\* C6: the update-all signal is one of every segment's signals; one arrival
\* of it becomes pending for every task that listens ("lib") or queues a
\* request for every segment ("tick"), and a pending signal goes away only
\* by starting a computation of the segment.
C6_UpdateAllReachesEverySegment ==
    /\ []((Running /\ IsSome(UpdateAll)) =>
             \A id \in SegmentIds : Subscribed(id, UpdateAllSignal))
    /\ [][(Running /\ IsSome(UpdateAll)) =>
             /\ LibSignalArrives(UpdateAllSignal) =>
                   \A id \in SegmentIds :
                       Registered(id) => UpdateAllSignal \in pending'[id]
             /\ TickSignalArrives(UpdateAllSignal) =>
                   Range(Requests) = SegmentIds
             /\ \A id \in SegmentIds :
                   (program = "lib" /\ UpdateAllSignal \in pending[id]
                       /\ UpdateAllSignal \notin pending'[id]) =>
                      computations'[id] = computations[id] + 1]_vars

\* C6 witness: after one arrival at instant 0 both segments, the one with
\* neither interval nor signal of its own included, have been computed twice
C6_Witness ==
    /\ program = "lib"
    /\ config = 2
    /\ now = 0
    /\ sent = 1
    /\ \A id \in SegmentIds : computations[id] = 2

\* C7: the composed text is the cached texts of the segments one after the
\* other in the order of the configuration, and slot i of the cache holds a
\* text of segment i (the empty text before its first delivery).
C7_ComposedInOrder ==
    main_pc \in {"loop", "recv"} =>
        /\ current_text = InOrder(segment_texts)
        /\ \A id \in SegmentIds :
              IF Delivered(id)
              THEN segment_texts[id] \in ComputedTexts(Seg(id))
              ELSE segment_texts[id] = ""

\* C7 witness: segment 0 delivered "Z", segment 1 "B"
C7_Witness ==
    /\ program = "lib"
    /\ main_pc = "loop"
    /\ current_text = "ZB"

\* C8: at most one computation of a segment is in flight.
C8_OneInFlight == \A id \in SegmentIds : in_flight[id] <= 1

\* C8 witness: a signal has arrived for a segment that is computing
C8_Witness ==
    /\ program = "lib"
    /\ \E id \in SegmentIds :
          /\ task_pc[id] = "computing"
          /\ pending[id] # {}
          /\ in_flight[id] = 1

\* a trigger of segment j is due: its wait is over ("lib"), or its request
\* is the next in the channel ("tick")
Triggered(j) ==
    IF program = "lib"
    THEN task_pc[j] = "waiting" /\ WakeDue(j)
    ELSE program = "tick" /\ channel # <<>> /\ Head(channel) = j

\* C9: while segment i is computing (the run of a program, which may take any
\* time), a due trigger of another segment j can start the recomputation of j.
C9_OthersNotStalled ==
    \A i \in SegmentIds : \A j \in SegmentIds \ {i} :
        (Running /\ in_flight[i] >= 1 /\ Seg(i).kind.type = "program"
            /\ Triggered(j)) =>
            ENABLED (TaskSignal(j) \/ TaskTimeout(j) \/ TickRecv)

\* the signal numbers the offsets of the configuration file resolve to
ResolvedSignals ==
    LET file == ConfigFiles[config]
    IN  UNION {{ResolveSignal(offset) :
                   offset \in Range(SegmentSignalOffsets(file.segments[k], file))}
               : k \in DOMAIN file.segments}

\* C10: when a resolved signal number is outside SIGRTMIN..SIGRTMAX the run
\* ends with an error at startup: no task is started, no loop is entered and
\* nothing is published.
C10_InvalidSignalAborts ==
    (\E signal \in ResolvedSignals : signal \notin SIGRTMIN .. SIGRTMAX) =>
        /\ main_pc \in {"parse", "error", "start"}
        /\ published = <<>>
        /\ \A id \in SegmentIds : task_pc[id] = "unspawned"

\* C11: a failure of one computation of a program (it cannot be spawned, it
\* exits with a non-zero status, it prints bytes that are not UTF-8) ends
\* neither the update loop of its segment nor the process: in a run whose
\* signals can all be registered no task fails and the process is not
\* aborted.
C11_FailureNeverStops ==
    (\A id \in SegmentIds : \A signal \in Range(Seg(id).signals) : Registrable(signal))
        => /\ main_pc # "aborted"
           /\ \A id \in SegmentIds : task_pc[id] # "failed"

\* the call of fn has returned
Returned(fn) == program = "test" /\ input.fn = fn /\ output # None

\* the characters from the first to the last that is not whitespace
Trimmed(chars) ==
    LET kept == {k \in DOMAIN chars : chars[k] \notin Whitespace}
    IN  IF kept = {} THEN <<>>
        ELSE SubSeq(chars, CHOOSE k \in kept : \A m \in kept : k <= m,
                           CHOOSE k \in kept : \A m \in kept : k >= m)

\* C12: the value of a program segment is "ERROR" when the program cannot be
\* spawned; when it ran it is the captured stdout (UTF-8 here), trimmed of
\* surrounding whitespace when trim is set, whatever its exit status.
C12_ProgramValue ==
    Returned("ProgramOutput::compute_value") =>
        IF ~input.result.spawned
        THEN Unwrap(output) = Some("ERROR")
        ELSE (\A k \in DOMAIN input.result.stdout :
                 input.result.stdout[k] # InvalidByte)
                => Unwrap(output) = Some(Str(IF input.self.trim
                                             THEN Trimmed(input.result.stdout)
                                             ELSE input.result.stdout))

\* segment id has neither an update interval nor a signal, in a build that
\* schedules the segments itself
Static(id) ==
    /\ program \in {"lib", "tick"}
    /\ Seg(id).update_interval = None
    /\ Seg(id).signals = <<>>

\* C13: a segment with no update interval and no signal is computed once and
\* never again, and its cached text, once delivered, never changes.
C13_StaticSegmentComputedOnce ==
    /\ [](\A id \in SegmentIds : Static(id) => computations[id] <= 1)
    /\ [][\A id \in SegmentIds :
             (Static(id) /\ Delivered(id)) => segment_texts'[id] = segment_texts[id]]_vars

\* C13 witness: two seconds into the run the static segment has been computed
\* once and waits, while the segment beside it has been computed three times
C13_Witness ==
    /\ program = "lib"
    /\ config = 1
    /\ main_pc = "loop"
    /\ now >= 2
    /\ Static(1)
    /\ task_pc[1] = "waiting"
    /\ computations[1] = 1
    /\ Delivered(1)
    /\ computations[0] >= 3

\* the intervals (seconds) of the segments of the call that have one
GivenIntervals ==
    {Unwrap(input.segments[k].update_interval) :
        k \in {m \in DOMAIN input.segments : IsSome(input.segments[m].update_interval)}}

\* the smallest number of a non-empty set
Least(S) == CHOOSE x \in S : \A y \in S : x <= y

\* g is the greatest common divisor of the positive numbers of S
IsGcd(g, S) ==
    /\ g >= 1
    /\ \A x \in S : x % g = 0
    /\ \A e \in (g + 1) .. Least(S) : \E x \in S : x % e # 0

\* C14 as stated: the tick is the greatest common divisor, in milliseconds,
\* of the intervals of the segments that have one, and there is no tick when
\* no segment has an interval.
C14_TickIsGcd ==
    Returned("update_loop") =>
        IF GivenIntervals = {}
        THEN Unwrap(output) = None
        ELSE /\ IsSome(Unwrap(output))
             /\ IsGcd(Unwrap(Unwrap(output)), {d * 1000 : d \in GivenIntervals})

\* the milliseconds of the given intervals as the code takes them, those
\* that the cast turns into 0 left out
CastMillis == {(d * 1000) % 2^MillisBits : d \in GivenIntervals} \ {0}

\* C14 amended: a general update interval set in the configuration is the
\* tick; without one the tick is the greatest common divisor of the
\* milliseconds of the intervals of the segments that have one, each cast to
\* the unsigned integer (so it divides every interval that fits the
\* integer), and there is no tick when no segment has an interval.
C14_TickIsGcdUnlessGeneral ==
    Returned("update_loop") =>
        IF IsSome(input.config_update_interval)
        THEN Unwrap(output) = input.config_update_interval
        ELSE IF GivenIntervals = {}
             THEN Unwrap(output) = None
             ELSE /\ IsSome(Unwrap(output))
                  /\ IF CastMillis = {}
                     THEN Unwrap(Unwrap(output)) = 0
                     ELSE IsGcd(Unwrap(Unwrap(output)), CastMillis)

\* C14 witness: intervals of 4 s and 6 s beside a segment without interval
\* give a tick of 2 s
C14_Witness ==
    /\ Returned("update_loop")
    /\ input.config_update_interval = None
    /\ input.segments = <<[update_interval |-> Some(4)], [update_interval |-> None],
                          [update_interval |-> Some(6)]>>
    /\ output = Some(Some(2000))

\* a turn of update_loop ends: get_status_text has asked every segment for
\* its value
TickTurn == program = "tick" /\ main_pc = "compose" /\ main_pc' = "recv"

\* C15: at the end of a turn of the shared-tick loop a segment is recomputed
\* when it has an interval and the time of the loop is at least that interval
\* past its last update, and otherwise its cached text is used: a segment
\* without interval is not recomputed, and two recomputations of a segment by
\* the tick lie at least its interval apart.
C15_TickRecomputesStaleOnly ==
    [][TickTurn =>
          \A id \in SegmentIds :
              IF /\ IsSome(Seg(id).update_interval)
                 /\ loop_now - last_update[id] >= Unwrap(Seg(id).update_interval)
              THEN /\ computations'[id] = computations[id] + 1
                   /\ last_update'[id] = loop_now
              ELSE /\ computations'[id] = computations[id]
                   /\ last_update'[id] = last_update[id]
                   /\ segment_texts'[id] = segment_texts[id]]_vars

\* C15 witness: under a tick of 1 s, in a run without signals, the segment
\* with an interval of 2 s has been recomputed once when the segment with an
\* interval of 1 s has been recomputed three times
C15_Witness ==
    /\ program = "tick"
    /\ config = 7
    /\ main_pc = "recv"
    /\ LoopInterval = Some(1)
    /\ computations[0] = 4
    /\ computations[1] = 2

\* C16: a segment with hide_if_empty set whose value is empty renders as the
\* empty string, whatever its separators, icon and colours; with
\* hide_if_empty unset the separators and the icon are emitted around the
\* empty value.
C16_HiddenWhenEmpty ==
    (Returned("Segment::compute_value") /\ input.new_value = "") =>
        IF input.self.hide_if_empty
        THEN Unwrap(output) = ""
        ELSE Unwrap(output) =
                color(input.self.left_separator, input.self.coloring.left_separator)
                   \o color(input.self.icon, input.self.coloring.icon)
                   \o color("", input.self.coloring.text)
                   \o color(input.self.right_separator,
                            input.self.coloring.right_separator)

\* C16 witness: a hidden segment with separators, icon and colours, and the
\* same segment rendered with hide_if_empty unset
C16_Witness ==
    /\ Returned("Segment::compute_value")
    /\ input.new_value = ""
    /\ input.self.hide_if_empty
    /\ input.self.left_separator = ">"
    /\ input.self.right_separator = "<"
    /\ input.self.icon = "$"
    /\ input.self.coloring.text = Colored(2)
    /\ input.self.coloring.icon = Colored(2)
    /\ output = Some("")

\* a field as C17 describes it: verbatim without a colour, and with colour c
\* the byte c, the text, the byte 0x01
Field(text, c) == IF c = Uncolored THEN text ELSE Byte(c[1]) \o text \o Byte(1)

\* C17: a segment that is not hidden renders as the left separator, the
\* icon, the value and the right separator, each verbatim when it has no
\* colour and as the byte c, the text and the byte 0x01 when it has colour c.
C17_RenderedFields ==
    (Returned("Segment::compute_value")
        /\ ~(input.self.hide_if_empty /\ input.new_value = "")) =>
        Unwrap(output) =
            Field(input.self.left_separator, input.self.coloring.left_separator)
               \o Field(input.self.icon, input.self.coloring.icon)
               \o Field(input.new_value, input.self.coloring.text)
               \o Field(input.self.right_separator, input.self.coloring.right_separator)

\* the segment the call of Segment::new_from_config returned
Built == Unwrap(Unwrap(output))

ColorSlots == {"text", "left_separator", "right_separator", "icon"}

\* the colour C18 gives a slot
Resolved(slot) ==
    IF input.coloring[slot] # Uncolored THEN input.coloring[slot]
    ELSE IF input.config.coloring[slot] # Uncolored THEN input.config.coloring[slot]
    ELSE Uncolored

\* C18: each colour slot of a segment built from configuration holds the
\* colour of the segment when it sets one, otherwise the default of the
\* configuration when it sets one, otherwise none; the rendering reads the
\* colours of the segment alone.
C18_ColorsResolved ==
    Returned("Segment::new_from_config") =>
        /\ IsSome(Unwrap(output))
        /\ \A slot \in ColorSlots : Built.coloring[slot] = Resolved(slot)
        /\ Segment_compute_value(Built, "t") =
              color(Built.left_separator, Resolved("left_separator"))
                 \o color(Built.icon, Resolved("icon"))
                 \o color("t", Resolved("text"))
                 \o color(Built.right_separator, Resolved("right_separator"))

\* C18 witness: the text colour of the segment overrides the default, the
\* icon inherits the default, the left separator has no colour at all
C18_Witness ==
    /\ Returned("Segment::new_from_config")
    /\ input.coloring.text = Colored(6)
    /\ input.config.coloring.text = Colored(2)
    /\ input.coloring.icon = Uncolored
    /\ input.config.coloring.icon = Colored(2)
    /\ input.coloring.left_separator = Uncolored
    /\ input.config.coloring.left_separator = Uncolored
    /\ Built.coloring.text = Colored(6)
    /\ Built.coloring.icon = Colored(2)
    /\ Built.coloring.left_separator = Uncolored

\* C19: a separator of a segment built from configuration is the one of the
\* segment when it gives one, otherwise the default of the configuration
\* when it gives one, otherwise empty; the icon is the one of the segment or
\* empty.
C19_SeparatorsResolved ==
    Returned("Segment::new_from_config") =>
        /\ IsSome(Unwrap(output))
        /\ Built.left_separator =
              (IF input.left_separator # None THEN input.left_separator[1]
               ELSE IF input.config.left_separator # None
                    THEN input.config.left_separator[1]
                    ELSE "")
        /\ Built.right_separator =
              (IF input.right_separator # None THEN input.right_separator[1]
               ELSE IF input.config.right_separator # None
                    THEN input.config.right_separator[1]
                    ELSE "")
        /\ Built.icon = (IF input.icon # None THEN input.icon[1] ELSE "")

\* C19 witness: the left separator is inherited, the right one overrides the
\* default, the icon is not given
C19_Witness ==
    /\ Returned("Segment::new_from_config")
    /\ input.left_separator = None
    /\ input.config.left_separator = Some("|")
    /\ input.right_separator = Some("<")
    /\ input.config.right_separator = Some("|")
    /\ input.icon = None
    /\ Built.left_separator = "|"
    /\ Built.right_separator = "<"
    /\ Built.icon = ""

\* every offset of the call resolves to a real-time signal
OffsetsInRange ==
    \A k \in DOMAIN input.signal_offsets :
        input.signal_offsets[k] + SIGRTMIN \in SIGRTMIN .. SIGRTMAX

\* C20: the conversion of the signal offsets succeeds, with the numbers
\* offset + SIGRTMIN, when every one of them lies in SIGRTMIN..SIGRTMAX, and
\* fails with an error otherwise, also for the offsets whose cast to the
\* signed type wraps around.
C20_OffsetsRangeChecked ==
    Returned("Segment::convert_signal_offsets") =>
        /\ ~Unwrap(output).panicked
        /\ IF OffsetsInRange
           THEN Unwrap(output).value =
                   Some([k \in DOMAIN input.signal_offsets |->
                            input.signal_offsets[k] + SIGRTMIN])
           ELSE Unwrap(output).value = None

\* every computation of the run returns at once
AllInstant == \A id \in SegmentIds : Seg(id).kind.type = "constant"

\* C21: at every moment of the shared-tick loop the cached text of a segment
\* with an interval d was computed at most d plus one tick ago, also when
\* signals for other segments wake the loop (stated for the runs whose
\* computations take no time, where the schedule alone decides the age of a
\* text).
C21_NeverStaleBeyondTick ==
    (program = "tick" /\ main_pc \in {"recv", "update", "compose"} /\ AllInstant) =>
        \A id \in SegmentIds :
            IsSome(Seg(id).update_interval) =>
                now - computed_at[id] <=
                    Unwrap(Seg(id).update_interval) + Unwrap(LoopInterval)

\* the text of the result of segment id that was sent last among those in
\* the channel of run
NewestInChannel(id) ==
    LET at == {k \in DOMAIN channel : channel[k][1] = id}
    IN  channel[CHOOSE k \in at : \A m \in at : m <= k][2]

\* C22: the results of a segment reach the cache in the order they were
\* computed: among the results of the segment waiting in the channel the
\* newest is the text of its latest computation, and once none is waiting
\* the cached text is the text of its latest computation (the empty text
\* when it has none).
C22_ResultsInOrder ==
    main_pc \in {"loop", "recv"} =>
        \A id \in SegmentIds :
            IF InChannel(id) > 0
            THEN last_computed[id] = Some(NewestInChannel(id))
            ELSE IF last_computed[id] = None
                 THEN segment_texts[id] = ""
                 ELSE segment_texts[id] = Unwrap(last_computed[id])

\* C22 witness: two results of segment 0 with different texts wait in the
\* channel, and the cache still holds a third, older text
C22_Witness ==
    /\ program = "lib"
    /\ main_pc = "loop"
    /\ Len(channel) = 2
    /\ channel[1][1] = 0
    /\ channel[2][1] = 0
    /\ channel[1][2] # channel[2][2]
    /\ computations[0] - in_flight[0] = 3

\* the segments are scheduled: every task has started ("lib"), the loop has
\* been entered ("tick")
Scheduling ==
    \/ program = "lib" /\ Running /\ \A id \in SegmentIds : Registered(id)
    \/ program = "tick" /\ main_pc \in {"recv", "update", "compose"}

\* C23: the process has exactly one signal listener, registered for the
\* signals used by any segment, however many segments and signals there are.
C23_OneListener ==
    /\ Cardinality(Listeners) <= 1
    /\ Scheduling => Listeners = {<<0, UsedSignals>>}

\* the computation of segment id that now ends took longer than the update
\* interval of the segment
Overran(id) ==
    /\ IsSome(Seg(id).update_interval)
    /\ now - last_update[id] > Unwrap(Seg(id).update_interval)

\* C24: when a computation of a segment took longer than its interval the
\* task logs one warning and, without waiting, starts the next computation
\* at that instant; the task goes on, the cache is not touched by it, and
\* the loop of run can apply whatever is in the channel while the segment
\* computes.  No warning is logged otherwise.
C24_OverrunWarnsAndGoesOn ==
    /\ [][\A id \in SegmentIds :
             /\ (TaskSend(id) /\ Overran(id)) =>
                   /\ warnings'[id] = warnings[id] + 1
                   /\ task_pc'[id] = "computing"
                   /\ computations'[id] = computations[id] + 1
                   /\ last_update'[id] = now
                   /\ now' = now
                   /\ main_pc' = main_pc
                   /\ segment_texts' = segment_texts
             /\ warnings'[id] # warnings[id] => (TaskSend(id) /\ Overran(id))]_vars
    /\ []((program = "lib" /\ main_pc = "loop" /\ channel # <<>>) => ENABLED LibRecv)

\* C24 witness: the program of segment 0 (interval 2 s) was started at 0 s
\* and returned at 3 s; the task has warned and computes again, and the text
\* it sent has reached the status bar
C24_Witness ==
    /\ program = "lib"
    /\ config = 1
    /\ main_pc = "loop"
    /\ now = 3
    /\ warnings[0] = 1
    /\ task_pc[0] = "computing"
    /\ last_update[0] = 3
    /\ computations[0] = 2
    /\ channel = <<>>
    /\ segment_texts[0] = Unwrap(last_computed[0])

\* C25: in the per-segment timer policy the wait after a computation that
\* took no longer than the interval d is d less the time the computation and
\* its delivery took, and the computation the timer starts next begins
\* exactly d after the one before it began.
C25_TimerWithoutDrift ==
    [][\A id \in SegmentIds :
          /\ (TaskSend(id) /\ IsSome(Seg(id).update_interval) /\ ~Overran(id)) =>
                /\ task_pc'[id] = "waiting"
                /\ deadline'[id] =
                      Some(now + (Unwrap(Seg(id).update_interval)
                                     - (now - last_update[id])))
          /\ TaskTimeout(id) =>
                /\ now = last_update[id] + Unwrap(Seg(id).update_interval)
                /\ last_update'[id] = now]_vars

\* C25 witness: without any signal, and with computations that took time,
\* the segment with an interval of 2 s begins its third computation at 4 s
C25_Witness ==
    /\ program = "lib"
    /\ config = 1
    /\ main_pc = "loop"
    /\ sent = 0
    /\ warnings[0] = 0
    /\ now = 4
    /\ computations[0] = 3
    /\ last_update[0] = 4
    /\ task_pc[0] = "computing"

\* number of times id occurs in the sequence ids
Count(ids, id) == Cardinality({k \in DOMAIN ids : ids[k] = id})

\* C26: under a signal the routing table lists a segment at most once, and
\* one arrival of the signal requests at most one recomputation of the
\* segment, also when the segment names the signal twice or names the
\* update-all signal itself.
C26_RoutedOnce ==
    [][\A signal \in UsedSignals :
          TickSignalArrives(signal) =>
             \A id \in SegmentIds :
                 /\ Count(signals_map(segments, signal), id) <= 1
                 /\ Count(Requests, id) <= 1]_vars

\* a signal is pending for the task of segment id, which is computing
SignalledWhileComputing(id) ==
    program = "lib" /\ Running /\ task_pc[id] = "computing" /\ pending[id] # {}

\* C27: a subscribed signal that arrived while the segment was computing is
\* not lost: it stays pending until a computation is started for it, the
\* task of the segment comes through the current computation (it goes on
\* computing after an overlong one, or waits), and once the task waits the
\* recomputation can start and the clock does not advance before it.
C27_SignalWhileComputingKept ==
    /\ [][\A id \in SegmentIds :
             SignalledWhileComputing(id) =>
                 /\ pending[id] \subseteq pending'[id]
                 /\ task_pc'[id] \in {"computing", "waiting"}]_vars
    /\ [][\A id \in SegmentIds :
             (program = "lib" /\ pending'[id] # pending[id]
                 /\ ~(pending[id] \subseteq pending'[id])) =>
                   /\ task_pc[id] = "waiting"
                   /\ task_pc'[id] = "computing"
                   /\ computations'[id] = computations[id] + 1]_vars
    /\ [](\A id \in SegmentIds :
             (program = "lib" /\ Running /\ task_pc[id] = "waiting"
                 /\ pending[id] # {}) => ENABLED TaskSignal(id))

\* C28: once the StatusBar is constructed, and after every call of
\* update_segment, the text last handed to the sink is the cached texts of
\* the segments one after the other.
C28_PublishedFollowsCache ==
    (program \in {"bar", "lib"} /\ main_pc = "loop") =>
        /\ published # <<>>
        /\ LastPublished = InOrder(segment_texts)

\* C28 witness: the loop of run has applied three results that changed the
\* text; the sink was called for the construction and for each of them
C28_Witness ==
    /\ program = "lib"
    /\ config = 1
    /\ main_pc = "loop"
    /\ channel = <<>>
    /\ segment_texts = (0 :> "Z" @@ 1 :> "B")
    /\ published = <<"", "A", "AB", "ZB">>

\* C30: in the per-segment timer policy every recomputation, started by the
\* timer or by a signal, restarts the wait: it stamps last_update with the
\* instant it starts at, the wait that follows it ends one interval after
\* that instant, and the timer starts no computation before.
C30_EveryRecomputationRestartsWait ==
    /\ [][\A id \in SegmentIds :
             (TaskSignal(id) \/ TaskTimeout(id)) => last_update'[id] = now]_vars
    /\ [](\A id \in SegmentIds :
             (program = "lib" /\ task_pc[id] = "waiting"
                 /\ IsSome(Seg(id).update_interval)) =>
                 /\ deadline[id] =
                       Some(last_update[id] + Unwrap(Seg(id).update_interval))
                 /\ ENABLED TaskTimeout(id) =>
                       now >= last_update[id] + Unwrap(Seg(id).update_interval))

\* C30 witness: the segment with an interval of 2 s was computed at 0 s, on
\* a signal at 1 s, and then by the timer at 3 s, not at 2 s
C30_Witness ==
    /\ program = "lib"
    /\ config = 1
    /\ main_pc = "loop"
    /\ sent = 1
    /\ pending[0] = {}
    /\ warnings[0] = 0
    /\ now = 3
    /\ computations[0] = 3
    /\ last_update[0] = 3
    /\ deadline[0] = Some(3)

\* segment id of a run of lib.rs has an update interval, and every task of
\* the run can register its signals
Periodic(id) ==
    /\ program = "lib"
    /\ main_pc # "parse"
    /\ id \in SegmentIds
    /\ IsSome(Seg(id).update_interval)
    /\ \A signal \in UsedSignals : Registrable(signal)

\* the computations of segment id have gone on to the end of the time of
\* the model: the next one is due after MaxTime
KeptUp(id) ==
    /\ Periodic(id)
    /\ computations[id] >= 1
    /\ last_update[id] + Unwrap(Seg(id).update_interval) > MaxTime

\* no result of segment id waits in the channel and the cache holds the text
\* of its latest computation
Applied(id) ==
    /\ Periodic(id)
    /\ main_pc = "loop"
    /\ InChannel(id) = 0
    /\ last_computed[id] = Some(segment_texts[id])

\* the task of segment id is inside a computation
Computing(id) == Periodic(id) /\ Running /\ task_pc[id] = "computing"

\* C29: in a run of lib.rs whose signals can all be registered and whose
\* computations all come to an end (FairSpec), a segment with an update
\* interval is recomputed again and again
\* (here: until its next computation is due after the last instant of the
\* clock), each of its results in the channel is eventually applied to the
\* cache by the loop of run, and a task that computes can always send.
C29_PeriodicSegmentsKeepRunning ==
    \A id \in 0 .. MaxSegments - 1 :
        /\ [](Periodic(id) => <>KeptUp(id))
        /\ []((Periodic(id) /\ InChannel(id) > 0) => <>Applied(id))
        /\ [](Computing(id) => ENABLED (id \in SegmentIds /\ TaskSend(id)))
====
